---- MODULE Spec2Model ----
(***************************************************************************)
(* Model of the consul_template action plugin                              *)
(* (plugins/action/consul_template.py, ActionModule.run).                  *)
(*                                                                         *)
(* Each invocation of run is a sequential process whose steps are the      *)
(* points at which it touches the filesystem or calls a collaborator       *)
(* (the fetch action, the consul-template binary, the copy action).  A     *)
(* call of a collaborator is synchronous: run waits in it, and other       *)
(* invocations take steps, while the collaborator acts and before the call *)
(* returns; it is three steps: the call, the collaborator's act, the       *)
(* return.                                                                 *)
(* Python dicts (task args, result dicts) are functions whose DOMAIN is    *)
(* the set of keys present.  A path is a pair <<directory, basename>>.     *)
(***************************************************************************)
EXTENDS Integers, Sequences, FiniteSets, TLC

(* ---------------------------------------------------------------------- *)
(* Values                                                                  *)
(* ---------------------------------------------------------------------- *)

\* the two invocations of run that are considered (claims about repeated and
\* about concurrent invocations speak of two)
Invocations == {1, 2}

\* Python's None for string-valued and for path-valued variables
None == "None"
NonePath == <<"None", "None">>

\* a local name that has not been assigned (reading it raises UnboundLocalError)
Unbound == <<"Unbound", "Unbound">>

\* names tempfile.mkdtemp can hand out under C.DEFAULT_LOCAL_TMP
WorkDirs == {"w1", "w2", "w3"}

\* the name tempfile.mkstemp gives the one temp file an invocation creates
TmpName == "tmpf"

\* the template reference a playbook gives, and where the search finds it
UserSrc == <<"", "t.ctmpl">>
FoundSrc == <<"templates", "t.ctmpl">>

\* file contents: a plain template, a vault-encrypted template
TplText == "tpl"
EncText == "vault:tpl"

\* st_mode of the local template as os.stat reports it (regular file, rw-r-----)
StModes == {33184}

\* mode a file created by copy gets when no mode argument is given
DefaultMode == "0644"

Empty == [k \in {} |-> TRUE]

\* dict.update
update(r, d) == [k \in DOMAIN r \cup DOMAIN d |-> IF k \in DOMAIN d THEN d[k] ELSE r[k]]

\* dict.pop for a set of keys
pop(r, ks) == [k \in DOMAIN r \ ks |-> r[k]]

\* dict.get(k, default)
get(r, k, default) == IF k \in DOMAIN r THEN r[k] ELSE default

\* bool(dict.get(k)) for a boolean-valued key
truthy(r, k) == k \in DOMAIN r /\ r[k] = TRUE

\* os.path.basename
basename(p) == p[2]

\* os.path.join(tmpdir, name)
join(dir, name) == <<dir, name>>

\* text of a path in a message
PathStr(p) == IF p = NonePath THEN "None" ELSE IF p[1] = "" THEN p[2] ELSE p[1] \o "/" \o p[2]

(* ---------------------------------------------------------------------- *)
(* '0%03o' % stat.S_IMODE(st_mode)                                         *)
(* ---------------------------------------------------------------------- *)

OctDigit(d) ==
  CASE d = 0 -> "0" [] d = 1 -> "1" [] d = 2 -> "2" [] d = 3 -> "3"
    [] d = 4 -> "4" [] d = 5 -> "5" [] d = 6 -> "6" [] d = 7 -> "7"

RECURSIVE Oct(_)
Oct(n) == IF n < 8 THEN OctDigit(n) ELSE Oct(n \div 8) \o OctDigit(n % 8)

RECURSIVE OctLen(_)
OctLen(n) == IF n < 8 THEN 1 ELSE 1 + OctLen(n \div 8)

\* %o instead of %03o: no padding
Pad3oNoPad(n) == Oct(n)

\* %03o: octal, zero-padded to at least three digits
Pad3o(n) ==
  CASE OctLen(n) = 1 -> "00" \o Oct(n)
    [] OctLen(n) = 2 -> "0" \o Oct(n)
    [] OTHER -> Oct(n)

\* stat.S_IMODE: the low twelve bits
S_IMODE(st_mode) == st_mode % 4096

FmtMode(st_mode) == "0" \o Pad3o(S_IMODE(st_mode))

(* ---------------------------------------------------------------------- *)
(* Requests: the task arguments a playbook can give                        *)
(* ---------------------------------------------------------------------- *)

ArgKeys == {"content", "src", "dest", "remote_src", "mode"}

FullArgs ==
  [content : {TplText}, src : {UserSrc}, dest : {"d1", "d2"},
   remote_src : {TRUE}, mode : {"preserve"}]

Requests == { [k \in ks |-> full[k]] : full \in FullArgs, ks \in SUBSET ArgKeys }

(* ---------------------------------------------------------------------- *)
(* State                                                                   *)
(* ---------------------------------------------------------------------- *)

VARIABLES
  pc,               \* position of each invocation in run
  request,          \* the task arguments as the playbook gave them
  args,             \* self._task.args
  tmpdir,           \* local tmpdir
  shell_tmpdir,     \* self._connection._shell.tmpdir
  source,           \* local source
  source_tpl,       \* local source_tpl
  tmp_source,       \* local tmp_source
  result_file,      \* local result_file
  result,           \* the result dict
  exc,              \* exception propagating out of run
  env,              \* what the environment answered to this invocation
  invoked,          \* collaborators invoked so far, in order
  copy_args,        \* arguments of the copy task
  environment,      \* local environment
  popen,            \* command and environment of the subprocess.Popen call
  waiting,          \* where run is in a call of a collaborator
  copy_result,      \* what copy_action.run returns
  touched,          \* scratch directories this invocation read, wrote or removed
  created,          \* scratch directories this invocation created
  doneBefore,       \* invocations that had ended when this one began
  dest0,            \* destination files as they were when this one began
  loader_tempfiles, \* DataLoader._tempfiles
  dirs,             \* scratch directories on the controller
  files,            \* files in scratch directories: path -> content
  used,             \* names mkdtemp has handed out
  destFiles         \* files at the destinations: dest -> [content, mode]

procvars == <<pc, request, args, tmpdir, shell_tmpdir, source, source_tpl, tmp_source,
              result_file, result, exc, env, invoked, copy_args, environment,
              popen, waiting, copy_result, touched, created, doneBefore, dest0,
              loader_tempfiles>>
fsvars == <<dirs, files, used, destFiles>>
vars == <<procvars, fsvars>>

NoExc == [cls |-> "None", msg |-> ""]

NoEnv == [stat |-> "-", st_mode |-> 0, bin |-> "-", needle |-> "-", mat |-> "-",
          fetch |-> "-", enc |-> "-", real |-> "-", rc |-> "-", wrote |-> "-",
          copy |-> "-", diff |-> "-", os_environ |-> Empty, task_environment |-> Empty]

NoPopen == [cmd |-> <<>>, env |-> Empty]

Done(i) == pc[i] \in {"returned", "raised"}

Init ==
  /\ pc = [i \in Invocations |-> "start"]
  /\ request = [i \in Invocations |-> Empty]
  /\ args = [i \in Invocations |-> Empty]
  /\ tmpdir = [i \in Invocations |-> None]
  /\ shell_tmpdir = [i \in Invocations |-> None]
  /\ source = [i \in Invocations |-> NonePath]
  /\ source_tpl = [i \in Invocations |-> Unbound]
  /\ tmp_source = [i \in Invocations |-> Unbound]
  /\ result_file = [i \in Invocations |-> Unbound]
  /\ result = [i \in Invocations |-> Empty]
  /\ exc = [i \in Invocations |-> NoExc]
  /\ env = [i \in Invocations |-> NoEnv]
  /\ invoked = [i \in Invocations |-> <<>>]
  /\ copy_args = [i \in Invocations |-> Empty]
  /\ environment = [i \in Invocations |-> Empty]
  /\ popen = [i \in Invocations |-> NoPopen]
  /\ waiting = [i \in Invocations |-> "-"]
  /\ copy_result = [i \in Invocations |-> Empty]
  /\ touched = [i \in Invocations |-> {}]
  /\ created = [i \in Invocations |-> {}]
  /\ doneBefore = [i \in Invocations |-> {}]
  /\ dest0 = [i \in Invocations |-> Empty]
  /\ loader_tempfiles = [i \in Invocations |-> {}]
  /\ dirs = {}
  /\ files = Empty
  /\ used = {}
  /\ destFiles = Empty

(* ---------------------------------------------------------------------- *)
(* Filesystem helpers                                                      *)
(* ---------------------------------------------------------------------- *)

\* a workspace under a fixed, predictable name instead of a unique one
mkdtempFixed(usedNames) == "w1"

\* tempfile.mkdtemp: a directory name that was never handed out before
mkdtemp(usedNames) == CHOOSE d \in WorkDirs : d \notin usedNames

\* write content c at path p
WriteFile(fs, p, c) == [q \in DOMAIN fs \cup {p} |-> IF q = p THEN c ELSE fs[q]]

\* os.remove(p)
RemoveFile(fs, p) == [q \in DOMAIN fs \ {p} |-> fs[q]]

\* shutil.rmtree(d): the files of directory d are gone
RmtreeFiles(fs, d) == [q \in {p \in DOMAIN fs : p[1] # d} |-> fs[q]]

\* os.path.isfile for a path in a scratch directory
isfile(fs, p) == p \in DOMAIN fs

(* ---------------------------------------------------------------------- *)
(* Exceptions                                                              *)
(* ---------------------------------------------------------------------- *)

\* classes caught by `except AnsibleAction`: AnsibleAction and its subclasses
\* (AnsibleError is its base class and is not among them)
IsAnsibleAction(cls) == cls \in {"AnsibleAction", "AnsibleActionFail", "AnsibleActionSkip"}

\* an exception e raised inside the outer try: the handler merges e.result
\* of an AnsibleAction into result, anything else propagates
Handled(r, e) ==
  IF IsAnsibleAction(e.cls)
  THEN [result |-> update(r, [failed |-> TRUE, msg |-> e.msg]), exc |-> NoExc]
  ELSE [result |-> r, exc |-> e]

(* ---------------------------------------------------------------------- *)
(* run, lines 141-163: workspace, arguments, mode=preserve, environment    *)
(* ---------------------------------------------------------------------- *)

\* outcomes of os.stat(source) that matter: only asked when mode is preserve
StatOutcomes(a) ==
  IF get(a, "mode", None) = "preserve" /\ "src" \in DOMAIN a
  THEN {"ok", "missing"} ELSE {"-"}

\* lines 160-163 with the update the other way round
MergeEnvProcessWins(os_environ, task_environment) == update(task_environment, os_environ)

\* lines 160-163: os.environ.copy() updated with the task's environment
MergeEnv(os_environ, task_environment) == update(os_environ, task_environment)

\* the process environment and the task environment of the plain runs
Environs == {[os |-> [VAULT_TOKEN |-> "os-token"], task |-> Empty]}

BeginP(i, reqs, stmodes, environs) ==
  /\ pc[i] = "start"
  /\ \E a \in reqs : \E st \in StatOutcomes(a), sm \in stmodes, ev \in environs :
       LET d == mkdtemp(used)
           src0 == get(a, "src", NonePath)
           preserve == get(a, "mode", None) = "preserve"
           raised == IF ~preserve THEN NoExc
                     ELSE IF src0 = NonePath
                          THEN [cls |-> "TypeError", msg |-> "stat: path should be string, not NoneType"]
                     ELSE IF st = "missing"
                          THEN [cls |-> "OSError", msg |-> "No such file or directory"]
                     ELSE NoExc
       IN /\ dirs' = dirs \cup {d}
          /\ used' = used \cup {d}
          /\ created' = [created EXCEPT ![i] = @ \cup {d}]
          /\ touched' = [touched EXCEPT ![i] = @ \cup {d}]
          /\ request' = [request EXCEPT ![i] = a]
          /\ tmpdir' = [tmpdir EXCEPT ![i] = d]
          /\ shell_tmpdir' = [shell_tmpdir EXCEPT ![i] = d]
          /\ source' = [source EXCEPT ![i] = src0]
          /\ env' = [env EXCEPT ![i].stat = st,
                                ![i].st_mode = IF st = "ok" THEN sm ELSE 0,
                                ![i].os_environ = ev.os,
                                ![i].task_environment = ev.task]
          \* lines 160-163 are reached when line 157 did not raise
          /\ environment' = [environment EXCEPT ![i] =
                               IF raised = NoExc THEN MergeEnv(ev.os, ev.task) ELSE @]
          /\ args' = [args EXCEPT ![i] =
                        IF preserve /\ raised = NoExc
                        THEN update(a, [mode |-> FmtMode(sm)]) ELSE a]
          /\ exc' = [exc EXCEPT ![i] = raised]
          /\ pc' = [pc EXCEPT ![i] = IF raised = NoExc THEN "validate" ELSE "raised"]
          /\ doneBefore' = [doneBefore EXCEPT ![i] = {j \in Invocations : Done(j)}]
          /\ dest0' = [dest0 EXCEPT ![i] = destFiles]
  /\ UNCHANGED <<source_tpl, tmp_source, result_file, result, invoked, copy_args,
                 popen, waiting, copy_result, loader_tempfiles, files, destFiles>>

Begin(i, reqs) == BeginP(i, reqs, StModes, Environs)

(* ---------------------------------------------------------------------- *)
(* run, lines 165-178: executable lookup, parameter validation, search     *)
(* ---------------------------------------------------------------------- *)

MissingMsg == "src/content and dest are required"
AmbiguousMsg == "ambiguous parameter set: src and content are mutually exclusive"

\* the two tests of lines 170-173 in the opposite order
ValidationAmbiguousFirst(src, content, dest) ==
  IF src # NonePath /\ content # None THEN "ambiguous"
  ELSE IF (src = NonePath /\ content = None) \/ dest = None THEN "missing"
  ELSE "ok"

\* lines 170-173: `source is None and content is None or dest is None`, then
\* `source is not None and content is not None`
Validation(src, content, dest) ==
  IF (src = NonePath /\ content = None) \/ dest = None THEN "missing"
  ELSE IF src # NonePath /\ content # None THEN "ambiguous"
  ELSE "ok"

\* line 174: the template search is asked only for a local src
NeedleOutcomes(a) ==
  IF Validation(get(a, "src", NonePath), get(a, "content", None), get(a, "dest", None)) = "ok"
     /\ "src" \in DOMAIN a /\ ~truthy(a, "remote_src")
  THEN {"found", "absent"} ELSE {"-"}

NeedleMsg(src) == "Unable to find '" \o PathStr(src) \o "' in expected paths"

Validate(i) ==
  /\ pc[i] = "validate"
  /\ \E b \in {"ok", "missing"} :
     \E n \in (IF b = "ok" THEN NeedleOutcomes(args[i]) ELSE {"-"}) :
       LET content == get(args[i], "content", None)
           dest == get(args[i], "dest", None)
           v == Validation(source[i], content, dest)
           e == IF b = "missing"
                  THEN [cls |-> "ValueError", msg |-> "Failed to find required executable consul-template"]
                ELSE IF v = "missing" THEN [cls |-> "AnsibleActionFail", msg |-> MissingMsg]
                ELSE IF v = "ambiguous" THEN [cls |-> "AnsibleActionFail", msg |-> AmbiguousMsg]
                ELSE IF n = "absent"
                  THEN [cls |-> "AnsibleActionFail", msg |-> NeedleMsg(source[i])]
                ELSE NoExc
           h == Handled(result[i], e)
       IN /\ env' = [env EXCEPT ![i].bin = b, ![i].needle = n]
          /\ IF e = NoExc
             THEN /\ source' = [source EXCEPT ![i] = IF n = "found" THEN FoundSrc ELSE @]
                  /\ pc' = [pc EXCEPT ![i] = "resolve"]
                  /\ UNCHANGED <<result, exc>>
             ELSE /\ result' = [result EXCEPT ![i] = h.result]
                  /\ exc' = [exc EXCEPT ![i] = h.exc]
                  /\ pc' = [pc EXCEPT ![i] = "cleanup"]
                  /\ UNCHANGED source
  /\ UNCHANGED <<popen, waiting, copy_result, environment, request, args,
                 tmpdir, shell_tmpdir, source_tpl, tmp_source, result_file,
                 invoked, copy_args, touched, created, doneBefore, dest0,
                 loader_tempfiles, fsvars>>

(* ---------------------------------------------------------------------- *)
(* run, lines 180-220: the three origins of the template                   *)
(* ---------------------------------------------------------------------- *)

\* lines 181-220 with the remote_src test before the content test
OriginRemoteFirst(a) ==
  IF truthy(a, "remote_src") THEN "remote"
  ELSE IF "content" \in DOMAIN a THEN "inline" ELSE "local"

\* lines 181, 199, 219: content wins, then remote_src, else a local src
Origin(a) ==
  IF "content" \in DOMAIN a THEN "inline"
  ELSE IF truthy(a, "remote_src") THEN "remote" ELSE "local"

\* the error of a failed step of writing the content temp file
MatErr(m) ==
  CASE m = "mkstemp" -> "No space left on device"
    [] m = "write" -> "No space left on device"
    [] m = "close" -> "Input/output error"

WriteErrMsg(err) == "could not write content temp file: " \o err

\* lines 181-197: inline content is written to a temp file in tmpdir
Materialize(i) ==
  /\ pc[i] = "resolve"
  /\ Origin(args[i]) = "inline"
  /\ \E m \in {"ok", "mkstemp", "write", "close"} :
       LET content_tempfile == join(tmpdir[i], TmpName)
       IN /\ env' = [env EXCEPT ![i].mat = m]
          /\ files' = CASE m = "ok" -> WriteFile(files, content_tempfile, args[i].content)
                        [] m = "mkstemp" -> files
                        \* line 190: the write error is caught and the file removed
                        [] m = "write" -> RemoveFile(files, content_tempfile)
                        \* the buffered bytes were not flushed
                        [] m = "close" -> WriteFile(files, content_tempfile, "")
          \* line 194 is reached unless mkstemp or close raised
          /\ source_tpl' = [source_tpl EXCEPT ![i] =
                              IF m \in {"ok", "write"} THEN content_tempfile ELSE @]
          \* lines 195-197: no raise, no return
          /\ result' = [result EXCEPT ![i] =
                          CASE m = "mkstemp" ->
                                 update(@, [failed |-> TRUE, msg |-> WriteErrMsg(MatErr(m))])
                            [] m = "close" ->
                                 update(@, [failed |-> TRUE, msg |-> WriteErrMsg(MatErr(m))])
                            [] OTHER -> @]
          /\ touched' = [touched EXCEPT ![i] = @ \cup {tmpdir[i]}]
          /\ pc' = [pc EXCEPT ![i] = "realfile"]
  /\ UNCHANGED <<popen, waiting, copy_result, environment, request, args,
                 tmpdir, shell_tmpdir, source, tmp_source, result_file, exc,
                 invoked, copy_args, created, doneBefore, dest0, loader_tempfiles,
                 dirs, used, destFiles>>

\* lines 214-218 without the `return result`
AfterFetchNoReturn(fetch_result) == "realfile"

\* lines 214-218: a failed fetch is copied into result and run returns
AfterFetch(fetch_result) == IF truthy(fetch_result, "failed") THEN "cleanup" ELSE "realfile"

\* messages a failed fetch can carry
FetchMsgs == {"no such file", "permission denied"}

\* what is in the file fetch wrote: the plain or the vault-encrypted template
Fetched(c) == CASE c = "plain" -> TplText [] c = "vault" -> EncText

\* lines 200-214: a temp file is made in tmpdir and the fetch action is called
FetchCall(i) ==
  /\ pc[i] = "resolve"
  /\ Origin(args[i]) = "remote"
  /\ waiting[i] = "-"
  /\ files' = WriteFile(files, join(tmpdir[i], TmpName), "")
  /\ invoked' = [invoked EXCEPT ![i] = Append(@, "fetch")]
  /\ touched' = [touched EXCEPT ![i] = @ \cup {tmpdir[i]}]
  /\ waiting' = [waiting EXCEPT ![i] = "called"]
  /\ UNCHANGED <<pc, popen, copy_result, environment, request, args,
                 tmpdir, shell_tmpdir, source, source_tpl, tmp_source, result_file,
                 result, exc, env, copy_args, created, doneBefore, dest0,
                 loader_tempfiles, dirs, used, destFiles>>

\* line 214, while run waits in fetch_action.run: the fetch action brings the
\* remote file into the temp file, or fails and leaves it as it is
FetchActs(i) ==
  /\ pc[i] = "resolve"
  /\ Origin(args[i]) = "remote"
  /\ waiting[i] = "called"
  /\ \E f \in {"ok"} \cup FetchMsgs :
     \E c \in (IF f = "ok" THEN {"plain", "vault"} ELSE {"-"}) :
       /\ env' = [env EXCEPT ![i].fetch = f, ![i].enc = c]
       /\ files' = IF f = "ok" THEN WriteFile(files, join(tmpdir[i], TmpName), Fetched(c))
                   ELSE files
  /\ waiting' = [waiting EXCEPT ![i] = "acted"]
  /\ UNCHANGED <<pc, popen, copy_result, environment, request, args,
                 tmpdir, shell_tmpdir, source, source_tpl, tmp_source, result_file,
                 result, exc, invoked, copy_args, touched, created, doneBefore, dest0,
                 loader_tempfiles, dirs, used, destFiles>>

\* lines 214-218: fetch_action.run returns
FetchReturn(i) ==
  /\ pc[i] = "resolve"
  /\ Origin(args[i]) = "remote"
  /\ waiting[i] = "acted"
  /\ LET fetch_file == join(tmpdir[i], TmpName)
         fetch_result == IF env[i].fetch \in FetchMsgs
                         THEN [failed |-> TRUE, msg |-> env[i].fetch]
                         ELSE [changed |-> TRUE, dest |-> PathStr(fetch_file)]
         nxt == AfterFetch(fetch_result)
     IN /\ result' = [result EXCEPT ![i] =
                        IF truthy(fetch_result, "failed")
                        THEN update(@, [failed |-> fetch_result.failed, msg |-> fetch_result.msg])
                        ELSE @]
        /\ source_tpl' = [source_tpl EXCEPT ![i] = IF nxt = "realfile" THEN fetch_file ELSE @]
        /\ pc' = [pc EXCEPT ![i] = nxt]
  /\ waiting' = [waiting EXCEPT ![i] = "-"]
  /\ UNCHANGED <<popen, copy_result, environment, request, args,
                 tmpdir, shell_tmpdir, source, tmp_source, result_file, exc, env,
                 invoked, copy_args, touched, created, doneBefore, dest0,
                 loader_tempfiles, fsvars>>

\* lines 219-220: a local src is rendered where the search found it
UseLocal(i) ==
  /\ pc[i] = "resolve"
  /\ Origin(args[i]) = "local"
  /\ source_tpl' = [source_tpl EXCEPT ![i] = source[i]]
  /\ pc' = [pc EXCEPT ![i] = "realfile"]
  /\ UNCHANGED <<popen, waiting, copy_result, environment, request, args,
                 tmpdir, shell_tmpdir, source, tmp_source, result_file, result,
                 exc, env, invoked, copy_args, touched, created, doneBefore, dest0,
                 loader_tempfiles, fsvars>>

(* ---------------------------------------------------------------------- *)
(* run, lines 222-228: the loader's real file, and the output path         *)
(* ---------------------------------------------------------------------- *)

\* the decrypted temporary copy DataLoader.get_real_file makes of a vault file
DecryptedCopy(d) == <<"loader", d>>

\* line 228
ResultFile(dir, src_tpl) == join(dir, basename(src_tpl))

\* what get_real_file finds at a path outside the scratch directories
RealOutcomes(p) ==
  IF p = Unbound \/ p[1] \in WorkDirs THEN {"-"} ELSE {"plain", "vault", "notfile"}

\* text of the AnsibleFileNotFound that get_real_file raises
RealFileErr(p) == "the file " \o PathStr(p) \o " does not exist or is not a file"

\* line 226
NotFoundMsg(src, p) == "could not find src=" \o PathStr(src) \o ", " \o RealFileErr(p)

GetRealFile(i) ==
  /\ pc[i] = "realfile"
  /\ \E r \in RealOutcomes(source_tpl[i]) :
       LET p == source_tpl[i]
           scratch == p # Unbound /\ p[1] \in WorkDirs
           content == IF scratch /\ isfile(files, p) THEN files[p]
                      ELSE IF r = "vault" THEN EncText ELSE TplText
           found == IF scratch THEN isfile(files, p) ELSE r \in {"plain", "vault"}
           e == IF p = Unbound
                  THEN [cls |-> "UnboundLocalError",
                        msg |-> "local variable 'source_tpl' referenced before assignment"]
                ELSE IF ~found
                  THEN [cls |-> "AnsibleActionFail", msg |-> NotFoundMsg(source[i], p)]
                ELSE NoExc
           h == Handled(result[i], e)
       IN /\ env' = [env EXCEPT ![i].real = r]
          /\ touched' = [touched EXCEPT ![i] = IF scratch THEN @ \cup {p[1]} ELSE @]
          /\ IF e = NoExc
             THEN /\ tmp_source' = [tmp_source EXCEPT ![i] =
                                      IF content = EncText THEN DecryptedCopy(tmpdir[i]) ELSE p]
                  /\ loader_tempfiles' = [loader_tempfiles EXCEPT ![i] =
                                      IF content = EncText THEN @ \cup {DecryptedCopy(tmpdir[i])} ELSE @]
                  /\ result_file' = [result_file EXCEPT ![i] = ResultFile(tmpdir[i], p)]
                  /\ pc' = [pc EXCEPT ![i] = "render"]
                  /\ UNCHANGED <<result, exc>>
             ELSE /\ result' = [result EXCEPT ![i] = h.result]
                  /\ exc' = [exc EXCEPT ![i] = h.exc]
                  /\ pc' = [pc EXCEPT ![i] = "cleanup"]
                  /\ UNCHANGED <<tmp_source, loader_tempfiles, result_file>>
  /\ UNCHANGED <<popen, waiting, copy_result, environment, request, args,
                 tmpdir, shell_tmpdir, source, source_tpl, invoked, copy_args,
                 created, doneBefore, dest0, fsvars>>

(* ---------------------------------------------------------------------- *)
(* run, lines 230-254: the renderer and the check of its output            *)
(* ---------------------------------------------------------------------- *)

\* what consul-template writes for a template (a deterministic renderer)
Rendered(tpl) == "rendered(" \o tpl \o ")"

\* the template consul-template reads at the source path of -template: a file
\* in a scratch directory, or the plain (found or decrypted) template
ReadTemplate(fs, p) == IF p \in DOMAIN fs THEN fs[p] ELSE TplText

\* where get_bin_path finds the executable (line 167)
BinPath == "/usr/bin/consul-template"

\* an element of ctmpl_cmd: the pair <<f, v>> stands for the string f + v
Flag(f, v) == <<f, v>>

\* lines 234-241: one flag for an endpoint field that is not None
OptFlag(a, k, f) == IF k \in DOMAIN a THEN <<Flag(f, a[k])>> ELSE <<>>

\* lines 167 and 231-242
CtmplCmd(a, tsrc, rfile) ==
  <<Flag(BinPath, ""), Flag("-once", ""), Flag("-vault-renew-token=false", ""),
    Flag("-vault-retry=false", "")>>
  \o OptFlag(a, "consul_addr", "-consul-addr=")
  \o OptFlag(a, "consul_token", "-consul-token=")
  \o OptFlag(a, "vault_addr", "-vault-addr=")
  \o OptFlag(a, "vault_token", "-vault-token=")
  \o <<Flag("-template=", PathStr(tsrc) \o ":" \o PathStr(rfile))>>

RenderErr == "consul-template raised an error: "
StdErr == "vault: permission denied"
SkipMsg == "Template rendered to empty file. Skipping"

\* lines 251-254
SkipResult(r) == update(r, [msg |-> SkipMsg, skipped |-> TRUE])

\* lines 230-244: the command is built and subprocess.Popen starts it
RenderCall(i) ==
  /\ pc[i] = "render"
  /\ waiting[i] = "-"
  /\ popen' = [popen EXCEPT ![i] =
                 [cmd |-> CtmplCmd(args[i], tmp_source[i], result_file[i]),
                  env |-> environment[i]]]
  /\ invoked' = [invoked EXCEPT ![i] = Append(@, "render")]
  /\ waiting' = [waiting EXCEPT ![i] = "called"]
  /\ UNCHANGED <<pc, copy_result, environment, request, args,
                 tmpdir, shell_tmpdir, source, source_tpl, tmp_source, result_file,
                 result, exc, env, copy_args, touched, created, doneBefore, dest0,
                 loader_tempfiles, fsvars>>

\* line 248, while run waits in p.communicate: consul-template reads the
\* template and writes its output, or writes nothing, and is about to exit
RendererActs(i) ==
  /\ pc[i] = "render"
  /\ waiting[i] = "called"
  /\ \E rc \in {"0", "1"} :
     \E w \in (IF rc = "0" THEN {"yes", "no"} ELSE {"-"}) :
       /\ env' = [env EXCEPT ![i].rc = rc, ![i].wrote = w]
       /\ files' = IF w = "yes"
                   THEN WriteFile(files, result_file[i],
                                  Rendered(ReadTemplate(files, tmp_source[i])))
                   ELSE files
  /\ touched' = [touched EXCEPT ![i] =
                   @ \cup {result_file[i][1]}
                     \cup (IF tmp_source[i][1] \in WorkDirs THEN {tmp_source[i][1]} ELSE {})]
  /\ waiting' = [waiting EXCEPT ![i] = "acted"]
  /\ UNCHANGED <<pc, popen, copy_result, environment, request, args,
                 tmpdir, shell_tmpdir, source, source_tpl, tmp_source, result_file,
                 result, exc, invoked, copy_args, created, doneBefore, dest0,
                 loader_tempfiles, dirs, used, destFiles>>

\* lines 248-254: p.communicate returns, the exit status and the output file
\* are tested
RenderReturn(i) ==
  /\ pc[i] = "render"
  /\ waiting[i] = "acted"
  /\ LET e == IF env[i].rc # "0"
              THEN [cls |-> "AnsibleError", msg |-> RenderErr \o StdErr] ELSE NoExc
         h == Handled(result[i], e)
     IN IF e # NoExc
        THEN /\ result' = [result EXCEPT ![i] = h.result]
             /\ exc' = [exc EXCEPT ![i] = h.exc]
             /\ pc' = [pc EXCEPT ![i] = "cleanup"]
        ELSE IF ~isfile(files, result_file[i])
        THEN /\ result' = [result EXCEPT ![i] = SkipResult(@)]
             /\ pc' = [pc EXCEPT ![i] = "cleanup"]
             /\ UNCHANGED exc
        ELSE /\ pc' = [pc EXCEPT ![i] = "publish"]
             /\ UNCHANGED <<result, exc>>
  /\ touched' = [touched EXCEPT ![i] = @ \cup {result_file[i][1]}]
  /\ waiting' = [waiting EXCEPT ![i] = "-"]
  /\ UNCHANGED <<popen, copy_result, environment, request, args,
                 tmpdir, shell_tmpdir, source, source_tpl, tmp_source, result_file,
                 env, invoked, copy_args, created, doneBefore, dest0,
                 loader_tempfiles, fsvars>>

(* ---------------------------------------------------------------------- *)
(* run, lines 256-280: publishing through the copy action                  *)
(* ---------------------------------------------------------------------- *)

\* lines 261-262 popping content and remote_src only
CopyArgsKeepsEndpoints(a, res_file, dest) ==
  update(pop(a, {"content", "remote_src"}), [src |-> res_file, dest |-> dest])

\* lines 263-264 with the rendered file given as dest too
CopyArgsDestIsResultFile(a, res_file, dest) ==
  update(pop(a, {"content", "vault_addr", "vault_token", "consul_addr", "consul_token", "remote_src"}),
         [src |-> res_file, dest |-> PathStr(res_file)])

\* lines 260-264
CopyArgs(a, res_file, dest) ==
  update(pop(a, {"content", "vault_addr", "vault_token", "consul_addr", "consul_token", "remote_src"}),
         [src |-> res_file, dest |-> dest])

\* a Python list: the pair of the tag "list" and the sequence of its items,
\* so that the empty list [] is not the empty dict {} (a dict is a function
\* on its keys, the empty dict the function on no key)
List(items) == <<"list", items>>

Items(l) == l[2]

\* isinstance(v, list), for a value that is a list or a dict
IsList(v) == ToString(DOMAIN v) \in {ToString(1..2), ToString({1, 2})}

\* the diff the copy action can put in its result: none, a list with the
\* diff of the one file, a list with a diff that has no headers, an empty
\* list, a dict (the shape of the diff of a file whose attributes alone were
\* looked at), an empty dict
DiffKinds == {"none", "list", "bare", "empty", "dict", "emptydict"}

DiffOf(k, d, src, before, after) ==
  CASE k = "none" -> Empty
    [] k = "empty" -> [diff |-> List(<<>>)]
    [] k = "bare" -> [diff |-> List(<<Empty>>)]
    [] k = "list" -> [diff |-> List(<<[before_header |-> d, after_header |-> PathStr(src),
                                       before |-> before, after |-> after]>>)]
    [] k = "dict" -> [diff |-> [before |-> [path |-> d], after |-> [path |-> d]]]
    [] k = "emptydict" -> [diff |-> Empty]

\* the copy action: the file at dest gets the content of src and the mode
\* asked for; nothing is written when both already match
PlaceFile(dfs, content, cargs, outcome, k) ==
  LET d == cargs.dest
      old == IF d \in DOMAIN dfs THEN dfs[d] ELSE [content |-> None, mode |-> None]
      new == [content |-> content,
              mode |-> IF "mode" \in DOMAIN cargs THEN cargs.mode
                       ELSE IF d \in DOMAIN dfs THEN old.mode ELSE DefaultMode]
  IN IF outcome = "failed"
     THEN [dfs |-> dfs, res |-> [failed |-> TRUE, msg |-> "Destination not writable",
                                 changed |-> FALSE]]
     ELSE [dfs |-> [x \in DOMAIN dfs \cup {d} |-> IF x = d THEN new ELSE dfs[x]],
           res |-> update([changed |-> (new # old), dest |-> d, src |-> cargs.src],
                          DiffOf(k, d, cargs.src, old.content, content))]

\* lines 276-277: result['diff'][0]['after_header'] = dest sets the key in
\* the first item of a diff that is a list, whether the item had it or not
DiffHeader(r, dest) ==
  IF "diff" \in DOMAIN r /\ IsList(r.diff) /\ Len(Items(r.diff)) > 0
  THEN [r EXCEPT !.diff =
          List([Items(@) EXCEPT ![1] = update(@, [after_header |-> dest])])]
  ELSE r

\* line 277 indexes the first item of an empty list
DiffRaises(r) == "diff" \in DOMAIN r /\ IsList(r.diff) /\ Len(Items(r.diff)) = 0

\* lines 273-277 with the result marked changed whatever copy answered
PublishResultChanged(r, cr, src, dest) ==
  DiffHeader(update(update(r, cr), [src |-> src, changed |-> TRUE]), dest)

\* lines 273-277
PublishResult(r, cr, src, dest) ==
  DiffHeader(update(update(r, cr), [src |-> src]), dest)

\* lines 256-272: the loader's temporary copy is released, the copy task is
\* built and the copy action is called
PublishCall(i) ==
  /\ pc[i] = "publish"
  /\ waiting[i] = "-"
  /\ loader_tempfiles' = [loader_tempfiles EXCEPT ![i] = @ \ {tmp_source[i]}]
  /\ copy_args' = [copy_args EXCEPT ![i] = CopyArgs(args[i], result_file[i], args[i].dest)]
  /\ invoked' = [invoked EXCEPT ![i] = Append(@, "copy")]
  /\ waiting' = [waiting EXCEPT ![i] = "called"]
  /\ UNCHANGED <<pc, popen, copy_result, environment, request, args,
                 tmpdir, shell_tmpdir, source, source_tpl, tmp_source, result_file,
                 result, exc, env, touched, created, doneBefore, dest0, fsvars>>

\* line 272, while run waits in copy_action.run: the copy action reads the
\* rendered file and writes the destination
CopyActs(i) ==
  /\ pc[i] = "publish"
  /\ waiting[i] = "called"
  /\ \E c \in {"ok", "failed"} :
     \E k \in (IF c = "ok" THEN DiffKinds ELSE {"none"}) :
       LET placed == PlaceFile(destFiles, files[copy_args[i].src], copy_args[i], c, k)
       IN /\ env' = [env EXCEPT ![i].copy = c, ![i].diff = k]
          /\ destFiles' = placed.dfs
          /\ copy_result' = [copy_result EXCEPT ![i] = placed.res]
  /\ touched' = [touched EXCEPT ![i] = @ \cup {copy_args[i].src[1]}]
  /\ waiting' = [waiting EXCEPT ![i] = "acted"]
  /\ UNCHANGED <<pc, popen, environment, request, args,
                 tmpdir, shell_tmpdir, source, source_tpl, tmp_source, result_file,
                 result, exc, invoked, copy_args, created, doneBefore, dest0,
                 loader_tempfiles, dirs, files, used>>

\* lines 272-277: copy_action.run returns and its result is merged; an
\* IndexError of line 277 leaves through the finally of line 279
PublishReturn(i) ==
  /\ pc[i] = "publish"
  /\ waiting[i] = "acted"
  /\ result' = [result EXCEPT ![i] =
                  PublishResult(@, copy_result[i], source[i], args[i].dest)]
  /\ exc' = [exc EXCEPT ![i] =
               IF DiffRaises(update(result[i], copy_result[i]))
               THEN [cls |-> "IndexError", msg |-> "list index out of range"]
               ELSE @]
  /\ pc' = [pc EXCEPT ![i] = "rmtree"]
  /\ waiting' = [waiting EXCEPT ![i] = "-"]
  /\ UNCHANGED <<popen, copy_result, environment, request, args,
                 tmpdir, shell_tmpdir, source, source_tpl, tmp_source, result_file,
                 env, invoked, copy_args, touched, created, doneBefore, dest0,
                 loader_tempfiles, fsvars>>

\* lines 279-280: shutil.rmtree(tmpdir)
Rmtree(i) ==
  /\ pc[i] = "rmtree"
  /\ dirs' = dirs \ {tmpdir[i]}
  /\ files' = RmtreeFiles(files, tmpdir[i])
  /\ touched' = [touched EXCEPT ![i] = @ \cup {tmpdir[i]}]
  /\ pc' = [pc EXCEPT ![i] = "cleanup"]
  /\ UNCHANGED <<popen, waiting, copy_result, environment, request, args,
                 tmpdir, shell_tmpdir, source, source_tpl, tmp_source, result_file,
                 result, exc, env, invoked, copy_args, created, doneBefore, dest0,
                 loader_tempfiles, used, destFiles>>

(* ---------------------------------------------------------------------- *)
(* run, lines 282-287: the outer finally, then return or raise             *)
(* ---------------------------------------------------------------------- *)

\* the marker ActionBase._remove_tmp_path looks for in a path before it
\* removes anything: the names mkdtemp gives under C.DEFAULT_LOCAL_TMP
\* (tmpXXXXXXXX) do not carry it
TmpMarked(d) == d \notin WorkDirs

\* line 285: self._remove_tmp_path(self._connection._shell.tmpdir) removes,
\* through the connection's shell, a path that carries the marker and leaves
\* any other path alone
RemoveTmpPath(ds, fs, d) ==
  IF TmpMarked(d) THEN [dirs |-> ds \ {d}, files |-> RmtreeFiles(fs, d)]
  ELSE [dirs |-> ds, files |-> fs]

Cleanup(i) ==
  /\ pc[i] = "cleanup"
  /\ dirs' = RemoveTmpPath(dirs, files, shell_tmpdir[i]).dirs
  /\ files' = RemoveTmpPath(dirs, files, shell_tmpdir[i]).files
  /\ touched' = [touched EXCEPT ![i] =
                   IF TmpMarked(shell_tmpdir[i]) THEN @ \cup {shell_tmpdir[i]} ELSE @]
  /\ pc' = [pc EXCEPT ![i] = IF exc[i] = NoExc THEN "returned" ELSE "raised"]
  /\ UNCHANGED <<popen, waiting, copy_result, environment, request, args,
                 tmpdir, shell_tmpdir, source, source_tpl, tmp_source, result_file,
                 result, exc, env, invoked, copy_args, created, doneBefore, dest0,
                 loader_tempfiles, used, destFiles>>

(* ---------------------------------------------------------------------- *)
(* Specifications                                                          *)
(* ---------------------------------------------------------------------- *)

Step(i) ==
  \/ Validate(i) \/ Materialize(i) \/ UseLocal(i) \/ GetRealFile(i)
  \/ FetchCall(i) \/ FetchActs(i) \/ FetchReturn(i)
  \/ RenderCall(i) \/ RendererActs(i) \/ RenderReturn(i)
  \/ PublishCall(i) \/ CopyActs(i) \/ PublishReturn(i)
  \/ Rmtree(i) \/ Cleanup(i)

\* one invocation after the other, any request
BeginSeq(i) ==
  /\ \A j \in Invocations : j < i => Done(j)
  /\ Begin(i, Requests)

Next == \E i \in Invocations : BeginSeq(i) \/ Step(i)

Spec == Init /\ [][Next]_vars

\* two invocations at the same time, for different destinations
ConcRequests(i) ==
  {a \in Requests : /\ "dest" \in DOMAIN a
                    /\ a.dest = (IF i = 1 THEN "d1" ELSE "d2")
                    /\ ("content" \in DOMAIN a) # ("src" \in DOMAIN a)}

BeginConc(i) == Begin(i, ConcRequests(i))

NextConc == \E i \in Invocations : BeginConc(i) \/ Step(i)

SpecConc == Init /\ [][NextConc]_vars

\* one invocation, the local template being a regular file with any of the
\* permission bits 0..0o7777
PermBits == 0..4095

RegularFileModes == {32768 + p : p \in PermBits}

ModeRequests == {a \in Requests : "dest" \in DOMAIN a => a.dest = "d1"}

BeginMode(i) == i = 1 /\ BeginP(i, ModeRequests, RegularFileModes, Environs)

NextMode == \E i \in Invocations : BeginMode(i) \/ Step(i)

SpecMode == Init /\ [][NextMode]_vars

\* one invocation of a valid request that may carry endpoint fields (each
\* absent, given a value, or given as the empty string) and a file attribute,
\* under several process and task environments
EndpointKeys == {"consul_addr", "consul_token", "vault_addr", "vault_token"}

CmdKeys == ArgKeys \cup EndpointKeys \cup {"owner"}

FullArgsCmd ==
  [content : {TplText}, src : {UserSrc}, dest : {"d1"}, remote_src : {TRUE},
   mode : {"preserve"}, consul_addr : {"http://consul:8500", ""},
   consul_token : {"ctok", ""}, vault_addr : {"http://vault:8200", ""},
   vault_token : {"vtok", ""}, owner : {"root"}]

CmdRequests ==
  { [k \in ks |-> full[k]] : full \in FullArgsCmd,
      ks \in {x \in SUBSET CmdKeys : "dest" \in x /\ (("content" \in x) # ("src" \in x))} }

EnvKeys == {"VAULT_TOKEN", "ENV_NAME"}

EnvDicts(v) == { [k \in ks |-> v] : ks \in SUBSET EnvKeys }

CmdEnvirons == { [os |-> o, task |-> t] : o \in EnvDicts("os"), t \in EnvDicts("task") }

BeginCmd(i) == i = 1 /\ BeginP(i, CmdRequests, StModes, CmdEnvirons)

NextCmd == \E i \in Invocations : BeginCmd(i) \/ Step(i)

SpecCmd == Init /\ [][NextCmd]_vars

(* ---------------------------------------------------------------------- *)
(* Properties                                                              *)
(* ---------------------------------------------------------------------- *)

Returned(i) == pc[i] = "returned"
Failed(i) == truthy(result[i], "failed")
Skipped(i) == truthy(result[i], "skipped")
Changed(i) == truthy(result[i], "changed")
Msg(i) == get(result[i], "msg", None)
HasContent(i) == "content" \in DOMAIN request[i]
HasSrc(i) == "src" \in DOMAIN request[i]
HasDest(i) == "dest" \in DOMAIN request[i]
WasInvoked(i, what) == \E n \in 1..Len(invoked[i]) : invoked[i][n] = what
WorkspaceGone(i) == tmpdir[i] \notin dirs /\ \A p \in DOMAIN files : p[1] # tmpdir[i]

\* C1: when run has returned or raised, on whatever path (mode=preserve
\* failing included), its scratch workspace and the files in it are gone.
C1_WorkspaceRemovedOnEveryExit == \A i \in Invocations : Done(i) => WorkspaceGone(i)

\* C2: every fatal error (configuration error, source not found, fetch
\* failure, renderer non-zero exit, publish failure) ends with run returning
\* a result with failed=true and a msg; after a non-zero renderer exit the
\* msg carries the renderer's stderr; no exception escapes.
FatalError(i) ==
  \/ env[i].bin = "ok" /\ Validation(get(request[i], "src", NonePath),
                                      get(request[i], "content", None),
                                      get(request[i], "dest", None)) # "ok"
  \/ env[i].needle = "absent"
  \/ env[i].real = "notfile"
  \/ env[i].fetch \in FetchMsgs
  \/ env[i].rc = "1"
  \/ env[i].copy = "failed"

C2_FatalErrorsReturnFailed ==
  \A i \in Invocations :
    (Done(i) /\ FatalError(i)) =>
      /\ Returned(i)
      /\ Failed(i)
      /\ "msg" \in DOMAIN result[i]
      /\ (env[i].rc = "1" => Msg(i) = RenderErr \o StdErr)

\* C3: whatever the origin of the template, when the renderer exits zero and
\* writes no output file, copy is never invoked, and run returns skipped=true
\* with failed and changed not true and the destinations as they were.
C3_EmptyRenderSkips ==
  \A i \in Invocations :
    (env[i].rc = "0" /\ env[i].wrote = "no") =>
      /\ ~WasInvoked(i, "copy")
      /\ Done(i) => (Returned(i) /\ Skipped(i) /\ ~Failed(i) /\ ~Changed(i)
                     /\ destFiles = dest0[i])

\* C4: once fetch has returned failed=true with message m, run is returning
\* a result with failed=true and msg=m, and apart from that one fetch nothing
\* (neither the renderer nor copy) is invoked.
FetchReported(i) == env[i].fetch \in FetchMsgs /\ pc[i] # "resolve"

C4_FetchFailureAborts ==
  \A i \in Invocations :
    FetchReported(i) =>
      /\ pc[i] \in {"cleanup", "returned"}
      /\ exc[i] = NoExc
      /\ Failed(i)
      /\ Msg(i) = env[i].fetch
      /\ invoked[i] = <<"fetch">>

C4_Witness ==
  \E i \in Invocations :
    /\ Returned(i) /\ env[i].fetch \in FetchMsgs
    /\ HasSrc(i) /\ truthy(request[i], "remote_src") /\ ~HasContent(i)

\* C5: every invalid request (content and src both given, neither given,
\* dest not given) ends with run returning failed=true, with no collaborator
\* invoked and the destinations as they were.
InvalidRequest(i) ==
  Validation(get(request[i], "src", NonePath), get(request[i], "content", None),
             get(request[i], "dest", None)) # "ok"

C5_InvalidRequestFails ==
  \A i \in Invocations :
    (Done(i) /\ InvalidRequest(i)) =>
      /\ Returned(i)
      /\ Failed(i)
      /\ invoked[i] = <<>>
      /\ destFiles = dest0[i]

\* C6 as stated: with content and src both given, with or without dest, the
\* failure returned is the ambiguous-source error, and the missing-parameter
\* error is returned only when neither content nor src is given.
C6_AmbiguousWhateverDest ==
  \A i \in Invocations :
    Returned(i) =>
      /\ (HasContent(i) /\ HasSrc(i)) => (Failed(i) /\ Msg(i) = AmbiguousMsg)
      /\ Msg(i) = MissingMsg => (~HasContent(i) /\ ~HasSrc(i))

\* C6 amended: with content and src both given, the failure run returns is
\* the ambiguous-source error when dest is given and the missing-parameter
\* error when dest is not given; the missing-parameter error is returned
\* only when dest is not given or neither content nor src is given.
C6_AmbiguousOnlyWithDest ==
  \A i \in Invocations :
    Returned(i) =>
      /\ (HasContent(i) /\ HasSrc(i)) =>
           (Failed(i) /\ Msg(i) = (IF HasDest(i) THEN AmbiguousMsg ELSE MissingMsg))
      /\ Msg(i) = MissingMsg => (~HasDest(i) \/ (~HasContent(i) /\ ~HasSrc(i)))

C6_Witness ==
  \E i \in Invocations :
    /\ Returned(i) /\ HasContent(i) /\ HasSrc(i) /\ ~HasDest(i)
    /\ Failed(i) /\ Msg(i) = MissingMsg

\* C7: a request with content and remote_src=true is rejected: neither the
\* renderer nor copy is invoked and the result run returns has failed=true.
C7_ContentWithRemoteSrcRejected ==
  \A i \in Invocations :
    (HasContent(i) /\ truthy(request[i], "remote_src")) =>
      /\ ~WasInvoked(i, "render")
      /\ ~WasInvoked(i, "copy")
      /\ Returned(i) => Failed(i)

\* C8: when run is invoked again with the same arguments and the same
\* answers of the environment, after an invocation that published, and
\* nothing else wrote the destination, the second invocation returns
\* changed=false and leaves the destination's content and mode as they were.
Published(i) == Returned(i) /\ WasInvoked(i, "copy") /\ ~Failed(i)

Repeats(i, j) ==
  /\ i # j /\ Done(j)
  /\ Published(i)
  /\ i \in doneBefore[j]
  /\ request[j] = request[i]
  /\ env[j] = env[i]

C8_SecondInvocationUnchanged ==
  \A i, j \in Invocations :
    Repeats(i, j) =>
      /\ Returned(j)
      /\ "changed" \in DOMAIN result[j] /\ result[j].changed = FALSE
      /\ destFiles = dest0[j]

C8_Witness == \E i, j \in Invocations : Repeats(i, j) /\ env[i].wrote = "yes"

\* C9: two invocations running at the same time for different destinations
\* have distinct scratch workspaces, and each reads, writes and removes only
\* the workspace it created, which stays in place until it removes it itself.
Overlapping == \A i \in Invocations : pc[i] # "start" /\ doneBefore[i] = {}

C9_WorkspacesDoNotInterfere ==
  \A i, j \in Invocations :
    i # j =>
      /\ created[i] \cap created[j] = {}
      /\ touched[i] \subseteq created[i]
      /\ touched[i] \cap created[j] = {}
      /\ pc[i] \in {"validate", "resolve", "realfile", "render", "publish", "rmtree"}
           => tmpdir[i] \in dirs

C9_Witness ==
  /\ Overlapping
  /\ \A i \in Invocations : Published(i) /\ WorkspaceGone(i)
  /\ request[1].dest # request[2].dest

\* C10: in a result run returns, failed and skipped are not both true, and
\* neither is true together with changed=true.
C10_ExclusiveSignals ==
  \A i \in Invocations :
    Returned(i) =>
      /\ ~(Failed(i) /\ Skipped(i))
      /\ ~(Failed(i) /\ Changed(i))
      /\ ~(Skipped(i) /\ Changed(i))

C10_Witness ==
  /\ \E i \in Invocations : Returned(i) /\ Skipped(i)
  /\ \E i \in Invocations : Returned(i) /\ Failed(i) /\ WasInvoked(i, "copy")

\* C11: with mode=preserve and a local source file of permission bits p, for
\* every p in 0..0o7777, the mode handed to copy is "0" followed by the octal
\* digits of p, at least three of them; the substitution is in place before
\* fetch is invoked and before any temp file is written in the workspace.
ExpectedMode(p) ==
  "0" \o (IF p >= 512 THEN OctDigit(p \div 512) ELSE "")
      \o OctDigit((p \div 64) % 8) \o OctDigit((p \div 8) % 8) \o OctDigit(p % 8)

Preserve(i) == get(request[i], "mode", None) = "preserve"

C11_PreserveGivesOctalMode ==
  \A i \in Invocations :
    Preserve(i) =>
      /\ (invoked[i] # <<>> \/ \E f \in DOMAIN files : f[1] = tmpdir[i])
           => (env[i].stat = "ok" /\ args[i].mode = ExpectedMode(env[i].st_mode % 4096))
      /\ env[i].stat = "ok" => args[i].mode = ExpectedMode(env[i].st_mode % 4096)
      /\ WasInvoked(i, "copy") => copy_args[i].mode = ExpectedMode(env[i].st_mode % 4096)

C11_Witness ==
  \E i \in Invocations :
    /\ Preserve(i) /\ WasInvoked(i, "copy")
    /\ env[i].st_mode % 4096 = 7
    /\ copy_args[i].mode = "0007"

\* C12: after a successful publish the src of the result is the source
\* reference exactly as the request gave it (for a local src the src argument
\* as written, not the path the search resolved it to).
C12_ResultSrcIsRequestSrc ==
  \A i \in Invocations :
    Published(i) =>
      /\ "src" \in DOMAIN result[i]
      /\ result[i].src = get(request[i], "src", NonePath)

\* C13 as stated: the arguments of copy contain none of content, consul_addr,
\* consul_token, vault_addr, vault_token, remote_src; src is the rendered
\* file in the workspace, dest the requested destination, and every other
\* argument of the request is passed on unchanged.
StrippedKeys == {"content", "consul_addr", "consul_token", "vault_addr", "vault_token", "remote_src"}

PassedKeys(i) == DOMAIN request[i] \ (StrippedKeys \cup {"src", "dest"})

CopyArgsBase(i) ==
  /\ DOMAIN copy_args[i] \cap StrippedKeys = {}
  /\ DOMAIN copy_args[i] = PassedKeys(i) \cup {"src", "dest"}
  /\ copy_args[i].src = join(tmpdir[i], basename(source_tpl[i]))
  /\ copy_args[i].dest = request[i].dest

C13_CopyArgsUnchanged ==
  \A i \in Invocations :
    WasInvoked(i, "copy") =>
      /\ CopyArgsBase(i)
      /\ \A k \in PassedKeys(i) : copy_args[i][k] = request[i][k]

\* C13 amended: as stated, except that a mode of "preserve" is passed on as
\* the octal string of the local source's permission bits; every other
\* argument is passed on unchanged.
C13_CopyArgsUnchangedButPreserve ==
  \A i \in Invocations :
    WasInvoked(i, "copy") =>
      /\ CopyArgsBase(i)
      /\ \A k \in PassedKeys(i) :
           copy_args[i][k] = (IF k = "mode" /\ request[i][k] = "preserve"
                              THEN ExpectedMode(env[i].st_mode % 4096)
                              ELSE request[i][k])

C13_Witness ==
  \E i \in Invocations :
    /\ WasInvoked(i, "copy")
    /\ EndpointKeys \cup {"remote_src"} \subseteq DOMAIN request[i]
    /\ {"owner", "mode"} \subseteq DOMAIN request[i]
    /\ copy_args[i].owner = "root" /\ copy_args[i].mode = "0640"

\* C14: for every combination of present and absent endpoint fields, the
\* renderer command has the one-shot flag, the no-token-renewal flag and the
\* no-retry flag, has the flag of an endpoint field exactly when the field is
\* present and then with the field's value, never with an empty value, and
\* has exactly one template flag, of the form source:destination.
FlagOf(k) ==
  CASE k = "consul_addr" -> "-consul-addr=" [] k = "consul_token" -> "-consul-token="
    [] k = "vault_addr" -> "-vault-addr=" [] k = "vault_token" -> "-vault-token="

Positions(c, f) == {n \in 1..Len(c) : c[n][1] = f}

C14_RendererCommand ==
  \A i \in Invocations :
    WasInvoked(i, "render") =>
      LET c == popen[i].cmd IN
        /\ \A f \in {"-once", "-vault-renew-token=false", "-vault-retry=false"} :
             \E n \in Positions(c, f) : c[n][2] = ""
        /\ \A k \in EndpointKeys :
             /\ (k \in DOMAIN request[i]) <=> (Positions(c, FlagOf(k)) # {})
             /\ \A n \in Positions(c, FlagOf(k)) : c[n][2] = request[i][k] /\ c[n][2] # ""
             /\ Cardinality(Positions(c, FlagOf(k))) <= 1
        /\ Cardinality(Positions(c, "-template=")) = 1
        /\ \A n \in Positions(c, "-template=") :
             c[n][2] = PathStr(tmp_source[i]) \o ":" \o PathStr(result_file[i])

\* C15: the renderer runs with the process environment overlaid by the task
\* environment: a key has the task's value when the task environment defines
\* it, else the process's value when the process environment defines it, else
\* it is absent.
C15_TaskEnvironmentWins ==
  \A i \in Invocations :
    WasInvoked(i, "render") =>
      LET e == popen[i].env
          os == env[i].os_environ
          task == env[i].task_environment
      IN /\ DOMAIN e = DOMAIN os \cup DOMAIN task
         /\ \A k \in DOMAIN e :
              e[k] = (IF k \in DOMAIN task THEN task[k] ELSE os[k])

C15_Witness ==
  \E i \in Invocations :
    /\ WasInvoked(i, "render")
    /\ DOMAIN env[i].os_environ = EnvKeys
    /\ DOMAIN env[i].task_environment = {"ENV_NAME"}
    /\ popen[i].env = [VAULT_TOKEN |-> "os", ENV_NAME |-> "task"]

\* C16: the collaborators are invoked in forward order and each at most once:
\* fetch first and only for a remote src without content, the renderer only
\* once a source path is resolved, copy only right after the renderer, when
\* it exited zero and the file at its output path exists; once run has
\* returned or raised, nothing more is invoked.
InvokesNext(i) ==
  /\ Len(invoked'[i]) = Len(invoked[i]) + 1
  /\ SubSeq(invoked'[i], 1, Len(invoked[i])) = invoked[i]
  /\ ~Done(i)
  /\ LET e == invoked'[i][Len(invoked'[i])] IN
       /\ ~WasInvoked(i, e)
       /\ e = "fetch" =>
            (invoked[i] = <<>> /\ truthy(request[i], "remote_src") /\ ~HasContent(i))
       /\ e = "render" =>
            (~WasInvoked(i, "copy") /\ source_tpl[i] # Unbound /\ tmp_source[i] # Unbound)
       /\ e = "copy" =>
            /\ Len(invoked[i]) > 0 /\ invoked[i][Len(invoked[i])] = "render"
            /\ env[i].rc = "0"
            /\ isfile(files, result_file[i])

C16_StagesRunForward ==
  [][\A i \in Invocations :
       /\ invoked'[i] # invoked[i] => InvokesNext(i)
       /\ Done(i) => pc'[i] = pc[i]]_vars

C16_Witness ==
  \E i \in Invocations : Returned(i) /\ invoked[i] = <<"fetch", "render", "copy">>

\* C17: for a local src, when the search does not find it or the located
\* file is not a real file, run returns failed=true with a msg that carries
\* the path as the request gave it and the lookup error, and neither the
\* renderer nor copy is invoked.
LocalLookupFailed(i) == env[i].needle = "absent" \/ env[i].real = "notfile"

C17_LocalLookupFailure ==
  \A i \in Invocations :
    (Done(i) /\ LocalLookupFailed(i)) =>
      /\ Returned(i)
      /\ Failed(i)
      /\ Msg(i) = (IF env[i].needle = "absent"
                   THEN NeedleMsg(request[i].src)
                   ELSE NotFoundMsg(request[i].src, FoundSrc))
      /\ invoked[i] = <<>>

\* C18: for inline content, when creating, writing or closing the temp file
\* fails, run returns failed=true with a msg that carries the I/O error, and
\* the workspace is removed.
C18_ContentWriteFailureReported ==
  \A i \in Invocations :
    (Done(i) /\ env[i].mat \in {"mkstemp", "write", "close"}) =>
      /\ Returned(i)
      /\ Failed(i)
      /\ Msg(i) = WriteErrMsg(MatErr(env[i].mat))
      /\ WorkspaceGone(i)

\* C19: whatever the origin, the path the renderer is told to write to
\* differs from the path of the template it reads.
C19_OutputIsNotTheTemplate ==
  \A i \in Invocations :
    WasInvoked(i, "render") => result_file[i] # tmp_source[i]

\* C20: when run has returned or raised, every temporary copy the loader made
\* for the template has been released with cleanup_tmp_file.
C20_RealFileReleased ==
  \A i \in Invocations : Done(i) => loader_tempfiles[i] = {}
====
